---- MODULE Spec2Model ----
(***************************************************************************)
(* Model of src/src/interface/CoinInfo.ts: the schema-driven validator and *)
(* transcoder (transform, cast, uncast), the lazily memoised property maps *)
(* (jsonToJSProps, jsToJSONProps), the registry typeMap and the public     *)
(* entry points Convert.toCoinInfo and Convert.coinInfoToJson.             *)
(*                                                                         *)
(* JavaScript values are tagged records; the payload field is named after  *)
(* the tag so that values of different types never share a field:          *)
(*   undefined [t |-> "undefined"]        null   [t |-> "null"]            *)
(*   string    [t |-> "string", s]        number [t |-> "number", n]       *)
(*   boolean   [t |-> "boolean", b]       array  [t |-> "array", items]    *)
(*   object    [t |-> "object", keys, at]  (own property names in insertion *)
(*             order, and the value at each name)                          *)
(*   Date      [t |-> "Date", ms]         (a valid Date object)            *)
(* Type descriptors are the values the source uses: "" 0 true undefined    *)
(* null false "any" are the JavaScript values above, Date is the           *)
(* constructor [t |-> "DateCtor"], and r(), u(), a(), o(), l() build       *)
(* records tagged "ref", "union", "a", "shape", "literal".                 *)
(***************************************************************************)
EXTENDS Integers, Sequences, FiniteSets, TLC

VARIABLES typeMap, input, phase, typed, json, tin, tout, call

vars == <<typeMap, input, phase, typed, json, tin, tout, call>>

(***************************************************************************)
(* JavaScript values                                                       *)
(***************************************************************************)
Undef == [t |-> "undefined"]

Null == [t |-> "null"]

Str(s) == [t |-> "string", s |-> s]

Num(n) == [t |-> "number", n |-> n]

Bool(b) == [t |-> "boolean", b |-> b]

Arr(items) == [t |-> "array", items |-> items]

\* the object with the properties entries[i].k = entries[i].v, in that order
Obj(entries) ==
    [t    |-> "object",
     keys |-> [i \in 1..Len(entries) |-> entries[i].k],
     at   |-> [k \in {entries[i].k : i \in 1..Len(entries)} |->
                 entries[CHOOSE i \in 1..Len(entries) : entries[i].k = k].v]]

DateV(ms) == [t |-> "Date", ms |-> ms]

DateCtor == [t |-> "DateCtor"]

\* typeof x, for values and for type descriptors
TypeOf(x) ==
    CASE x.t = "undefined" -> "undefined"
      [] x.t = "string"    -> "string"
      [] x.t = "number"    -> "number"
      [] x.t = "boolean"   -> "boolean"
      [] x.t = "DateCtor"  -> "function"
      [] OTHER             -> "object"

\* Array.isArray(x)
IsArray(x) == x.t = "array"

\* The own properties of val as an object value: only plain objects carry
\* named properties in this model (an array's indices and a Date's absence of
\* own properties are not distinguished further).
Own(val) == IF val.t = "object" THEN val ELSE Obj(<<>>)

\* Object.prototype.hasOwnProperty.call(val, key)
HasOwn(val, key) == val.t = "object" /\ key \in DOMAIN val.at

\* val[key] of an own property
GetOwn(val, key) == val.at[key]

\* obj[key] = v: overwrite in place or append
PutEntry(obj, key, v) ==
    IF key \in DOMAIN obj.at
    THEN [obj EXCEPT !.at = [@ EXCEPT ![key] = v]]
    ELSE [obj EXCEPT !.keys = Append(@, key), !.at = (key :> v) @@ @]

(***************************************************************************)
(* Dates.  Instants are milliseconds since the epoch.  DateStrings lists   *)
(* the date/time strings of the model with the instant Date.parse gives    *)
(* them; canon marks the form Date.prototype.toISOString prints.  Any      *)
(* other string is not a date.                                             *)
(***************************************************************************)
DateStrings ==
    << [s |-> "1970-01-01T00:00:00.000Z", ms |-> 0,          canon |-> TRUE],
       [s |-> "1970-01-01T00:00:00.001Z", ms |-> 1,          canon |-> TRUE],
       [s |-> "1970-01-01T00:00:00.007Z", ms |-> 7,          canon |-> TRUE],
       [s |-> "1970-01-20T16:13:20.000Z", ms |-> 1700000000, canon |-> TRUE],
       [s |-> "1970-01-20T16:13:20Z",     ms |-> 1700000000, canon |-> FALSE],
       [s |-> "1970-01-02T00:00:00.000Z", ms |-> 86400000,   canon |-> TRUE],
       [s |-> "1970-01-02",               ms |-> 86400000,   canon |-> FALSE] >>

InvalidDate == [valid |-> FALSE, ms |-> 0]

\* Date.parse(s) as a time value
DateParse(s) ==
    IF \E i \in 1..Len(DateStrings) : DateStrings[i].s = s
    THEN [valid |-> TRUE,
          ms |-> DateStrings[CHOOSE i \in 1..Len(DateStrings) : DateStrings[i].s = s].ms]
    ELSE InvalidDate

\* d.toISOString() of a valid Date
toISOString(ms) ==
    IF \E i \in 1..Len(DateStrings) : DateStrings[i].ms = ms /\ DateStrings[i].canon
    THEN DateStrings[CHOOSE i \in 1..Len(DateStrings) :
                        DateStrings[i].ms = ms /\ DateStrings[i].canon].s
    ELSE "unmodelled-instant"

\* new Date(val): the time value of the Date it builds.  A string is parsed,
\* a number or a Date is its time value, a boolean is 0 or 1 (ToNumber),
\* undefined is NaN, and an array or object goes through ToPrimitive to a
\* string: "" for [], the element for a one-string array, "[object Object]"
\* for a plain object.
NewDate(val) ==
    CASE val.t = "string"    -> DateParse(val.s)
      [] val.t = "number"    -> [valid |-> TRUE, ms |-> val.n]
      [] val.t = "Date"      -> [valid |-> TRUE, ms |-> val.ms]
      [] val.t = "boolean"   -> [valid |-> TRUE, ms |-> IF val.b THEN 1 ELSE 0]
      [] val.t = "null"      -> [valid |-> TRUE, ms |-> 0]
      [] val.t = "array"     -> IF Len(val.items) = 1 /\ val.items[1].t = "string"
                                THEN DateParse(val.items[1].s)
                                ELSE InvalidDate
      [] OTHER               -> InvalidDate

(***************************************************************************)
(* JSON.stringify(val) read back as a JSON value (Undef when it yields     *)
(* undefined): a Date prints as its ISO string, an object drops the        *)
(* properties whose value is undefined, an array prints them as null.      *)
(***************************************************************************)
RECURSIVE JSONstringify(_)
JSONstringify(val) ==
    CASE val.t = "Date"   -> Str(toISOString(val.ms))
      [] val.t = "array"  ->
            Arr([i \in 1..Len(val.items) |->
                    LET e == JSONstringify(val.items[i])
                    IN  IF e = Undef THEN Null ELSE e])
      [] val.t = "object" ->
            LET out  == [k \in DOMAIN val.at |-> JSONstringify(val.at[k])]
                kept == SelectSeq(val.keys, LAMBDA k : out[k] # Undef)
            IN  [t    |-> "object",
                 keys |-> kept,
                 at   |-> [k \in {kept[i] : i \in 1..Len(kept)} |-> out[k]]]
      [] val.t \in {"undefined", "DateCtor"} -> Undef
      [] OTHER -> val

(***************************************************************************)
(* Type descriptor constructors (lines 217-239)                            *)
(***************************************************************************)
l(typ) == [t |-> "literal", literal |-> typ]

a(typ) == [t |-> "a", arrayItems |-> typ]

u(typs) == [t |-> "union", unionMembers |-> typs]

o(props, additional) ==
    [t |-> "shape", props |-> props, additional |-> additional,
     jsonToJS |-> Undef, jsToJSON |-> Undef]

r(name) == [t |-> "ref", ref |-> name]

P(name, typ) == [json |-> name, js |-> name, typ |-> typ]

(***************************************************************************)
(* The registry typeMap (lines 241-302) as built at module load: no        *)
(* memoised map is set yet.                                                *)
(***************************************************************************)
CoinInfoProps ==
    << P("id", Str("")), P("name", Str("")), P("symbol", Str("")),
       P("rank", Num(0)), P("is_new", Bool(TRUE)), P("is_active", Bool(TRUE)),
       P("type", Str("")), P("logo", Str("")),
       P("tags", a(r("Tag"))), P("team", a(r("Team"))),
       P("description", Str("")), P("message", Str("")),
       P("open_source", Bool(TRUE)), P("started_at", DateCtor),
       P("development_status", Str("")), P("hardware_wallet", Bool(TRUE)),
       P("proof_type", Str("")), P("org_structure", Str("")),
       P("hash_algorithm", Str("")), P("links", r("Links")),
       P("links_extended", a(r("LinksExtended"))),
       P("whitepaper", r("Whitepaper")),
       P("first_data_at", DateCtor), P("last_data_at", DateCtor) >>

LinksProps ==
    << P("explorer", a(Str(""))), P("facebook", a(Str(""))),
       P("reddit", a(Str(""))), P("source_code", a(Str(""))),
       P("website", a(Str(""))), P("youtube", a(Str(""))) >>

LinksExtendedProps ==
    << P("url", Str("")), P("type", Str("")),
       P("stats", u(<<Undef, r("Stats")>>)) >>

StatsProps ==
    << P("subscribers", u(<<Undef, Num(0)>>)),
       P("contributors", u(<<Undef, Num(0)>>)),
       P("stars", u(<<Undef, Num(0)>>)),
       P("followers", u(<<Undef, Num(0)>>)) >>

TagProps ==
    << P("id", Str("")), P("name", Str("")),
       P("coin_counter", Num(0)), P("ico_counter", Num(0)) >>

TeamProps == << P("id", Str("")), P("name", Str("")), P("position", Str("")) >>

WhitepaperProps == << P("link", Str("")), P("thumbnail", Str("")) >>

ShapeNames ==
    {"CoinInfo", "Links", "LinksExtended", "Stats", "Tag", "Team", "Whitepaper"}

InitTypeMap ==
    [n \in ShapeNames |->
        o(CASE n = "CoinInfo"      -> CoinInfoProps
            [] n = "Links"         -> LinksProps
            [] n = "LinksExtended" -> LinksExtendedProps
            [] n = "Stats"         -> StatsProps
            [] n = "Tag"           -> TagProps
            [] n = "Team"          -> TeamProps
            [] n = "Whitepaper"    -> WhitepaperProps,
          Bool(FALSE))]

\* typeMap[name]: undefined for a name the registry does not hold
Lookup(tm, name) == IF name \in DOMAIN tm THEN tm[name] ELSE Undef

(***************************************************************************)
(* Outcomes of a transform: a returned value, a thrown Error, or (while a  *)
(* call is being stepped) the named shape whose getProps result the call   *)
(* has not obtained yet.  Each carries the registry as the transform left  *)
(* it.                                                                     *)
(***************************************************************************)
Ok(v, tm) == [st |-> "ok", val |-> v, tm |-> tm]

Thrown(e, tm) == [st |-> "err", err |-> e, tm |-> tm]

Need(name, tm) == [st |-> "need", name |-> name, tm |-> tm]

\* a TypeError raised by the runtime itself (reading a property of undefined)
TypeError == [key |-> "", parent |-> "", expected |-> <<"TypeError">>, got |-> Undef]

\* prettyTypeName (lines 96-108), as the sequence of the words it prints
RECURSIVE prettyTypeName(_)
prettyTypeName(typ) ==
    IF IsArray(typ)
    THEN IF Len(typ.items) = 2 /\ typ.items[1] = Undef
         THEN <<"an optional">> \o prettyTypeName(typ.items[2])
         ELSE LET RECURSIVE joined(_)
                  joined(i) == IF i > Len(typ.items) THEN <<>>
                               ELSE prettyTypeName(typ.items[i]) \o joined(i + 1)
              IN  <<"one of [">> \o joined(1) \o <<"]">>
    ELSE IF typ.t = "null" THEN <<"TypeError">>
    ELSE IF TypeOf(typ) = "object" /\ typ.t = "literal" THEN <<typ.literal>>
    ELSE <<TypeOf(typ)>>

\* invalidValue (lines 89-94): the Error it throws.  The message shows the
\* key only when key is truthy and the parent only when parent is truthy, so
\* the empty string in either field stands for "not shown".
invalidValue(typ, val, key, parent) ==
    [key |-> key, parent |-> parent,
     expected |-> prettyTypeName(typ), got |-> JSONstringify(val)]

\* the map that jsonToJSProps builds (lines 112-113)
jsonToJSMap(props) ==
    LET RECURSIVE fill(_, _)
        fill(i, map) ==
            IF i > Len(props) THEN map
            ELSE fill(i + 1, PutEntry(map, props[i].json,
                                      [key |-> props[i].js, typ |-> props[i].typ]))
    IN  fill(1, Obj(<<>>))

\* the map that jsToJSONProps builds (lines 121-122)
jsToJSONMap(props) ==
    LET RECURSIVE fill(_, _)
        fill(i, map) ==
            IF i > Len(props) THEN map
            ELSE fill(i + 1, PutEntry(map, props[i].js,
                                      [key |-> props[i].json, typ |-> props[i].typ]))
    IN  fill(1, Obj(<<>>))

(***************************************************************************)
(* getProps: jsonToJSProps (lines 110-117) and jsToJSONProps (119-126),    *)
(* each a check of the memoised map, a fill when it is missing, and the    *)
(* return of the memoised map.  dir names the one in use: "jsonToJS" for   *)
(* cast, "jsToJSON" for uncast.                                            *)
(***************************************************************************)
Memo(shape, dir) == IF dir = "jsonToJS" THEN shape.jsonToJS ELSE shape.jsToJSON

\* lines 111, 120
MemoMissing(tm, name, dir) == Memo(tm[name], dir) = Undef

\* (a variant whose forEach consumes props while it builds the map)
jsonToJSFill_consumeProps(tm, name) ==
    [tm EXCEPT ![name].jsonToJS = jsonToJSMap(tm[name].props), ![name].props = <<>>]

\* lines 112-114
jsonToJSFill(tm, name) ==
    [tm EXCEPT ![name].jsonToJS = jsonToJSMap(tm[name].props)]

\* lines 121-123
jsToJSONFill(tm, name) ==
    [tm EXCEPT ![name].jsToJSON = jsToJSONMap(tm[name].props)]

MemoFill(tm, name, dir) ==
    IF dir = "jsonToJS" THEN jsonToJSFill(tm, name) ELSE jsToJSONFill(tm, name)

\* lines 116, 125
MemoReturn(tm, name, dir) == Memo(tm[name], dir)

\* getProps(typeMap[name]) run in one piece: the registry it leaves
getPropsRegistry(tm, name, dir) ==
    IF MemoMissing(tm, name, dir) THEN MemoFill(tm, name, dir) ELSE tm

(***************************************************************************)
(* transform (lines 128-207).  G is the call's context: G.dir names        *)
(* getProps and G.tm is the registry at this point of the call.  A call    *)
(* runs in one piece (G.stepped = FALSE: every getProps checks, fills and  *)
(* returns on the spot) or step by step (G.stepped = TRUE: G.view[name] is *)
(* what getProps has returned to this call for typeMap[name], Pending when *)
(* the call has not got that far, and the transform then stops with Need). *)
(* key and parent are the parameters of the same names; "" is their        *)
(* default.                                                                *)
(***************************************************************************)
Pending == [t |-> "pending"]

At(G, tm) == [G EXCEPT !.tm = tm]

\* line 193-196: follow references through the registry
RECURSIVE Resolve(_, _, _)
Resolve(typ, ref, tm) ==
    IF TypeOf(typ) = "object" /\ typ.t = "ref"
    THEN Resolve(Lookup(tm, typ.ref), typ.ref, tm)
    ELSE [typ |-> typ, ref |-> ref]

\* (a variant without the number check)
DateGuard_anyValue(typ, val) == typ = DateCtor

\* line 205: the guard in front of transformDate
DateGuard(typ, val) == typ = DateCtor /\ TypeOf(val) # "number"

\* (a variant that reads a missing key as null)
PropValue_nullWhenMissing(val, key) == IF HasOwn(val, key) THEN GetOwn(val, key) ELSE Null

\* line 175: the value looked up for a declared key
PropValue(val, key) == IF HasOwn(val, key) THEN GetOwn(val, key) ELSE Undef

\* (a variant that lets every key through)
IsDeclared_always(props, key) == TRUE

\* line 179: whether a key of the input is among the declared ones
IsDeclared(props, key) == HasOwn(props, key)

\* (a variant without the try/catch: the first member's Error propagates)
Caught_never(res) == FALSE

\* lines 139-141: a member's Error is caught and the next member is tried
Caught(res) == res.st = "err"

RECURSIVE transform(_, _, _, _, _)
RECURSIVE transformMembers(_, _, _, _, _, _)
RECURSIVE transformItems(_, _, _, _, _)
RECURSIVE transformDeclared(_, _, _, _, _, _)
RECURSIVE transformUndeclared(_, _, _, _, _, _, _)

\* lines 129-132
transformPrimitive(typ, val, G, key, parent) ==
    IF TypeOf(typ) = TypeOf(val) THEN Ok(val, G.tm)
    ELSE Thrown(invalidValue(typ, val, key, parent), G.tm)

\* lines 134-144: the loop from member i on
transformMembers(typs, i, val, G, key, parent) ==
    IF i > Len(typs) THEN Thrown(invalidValue(Arr(typs), val, key, parent), G.tm)
    ELSE LET res == transform(val, typs[i], G, "", "")
         IN  IF Caught(res)
             THEN transformMembers(typs, i + 1, val, At(G, res.tm), key, parent)
             ELSE res

transformUnion(typs, val, G, key, parent) ==
    transformMembers(typs, 1, val, G, key, parent)

\* lines 146-149
transformEnum(cases, val, G, key, parent) ==
    IF \E i \in 1..Len(cases.items) : cases.items[i] = val THEN Ok(val, G.tm)
    ELSE Thrown(invalidValue(Arr([i \in 1..Len(cases.items) |-> l(cases.items[i].s)]),
                             val, key, parent), G.tm)

\* line 154: val.map(el => transform(el, typ, getProps)) from element i on,
\* acc the elements mapped so far; the first throw ends the map
transformItems(typ, items, i, G, acc) ==
    IF i > Len(items) THEN Ok(Arr(acc), G.tm)
    ELSE LET res == transform(items[i], typ, G, "", "")
         IN  IF res.st # "ok" THEN res
             ELSE transformItems(typ, items, i + 1, At(G, res.tm), Append(acc, res.val))

\* (a variant that leaves the failing elements out of the result instead of
\* failing)
transformArray_skipInvalid(typ, val, G, key, parent) ==
    IF ~IsArray(val) THEN Thrown(invalidValue(l("array"), val, key, parent), G.tm)
    ELSE LET res  == [i \in 1..Len(val.items) |-> transform(val.items[i], typ, G, "", "")]
             good == SelectSeq(res, LAMBDA x : x.st = "ok")
         IN  IF \E i \in 1..Len(res) : res[i].st = "need"
             THEN res[CHOOSE i \in 1..Len(res) : res[i].st = "need"]
             ELSE Ok(Arr([i \in 1..Len(good) |-> good[i].val]), G.tm)

\* lines 151-155
transformArray(typ, val, G, key, parent) ==
    IF ~IsArray(val) THEN Thrown(invalidValue(l("array"), val, key, parent), G.tm)
    ELSE transformItems(typ, val.items, 1, G, <<>>)

\* lines 157-166
transformDate(val, G, key, parent) ==
    IF val = Null THEN Ok(Null, G.tm)
    ELSE LET d == NewDate(val)
         IN  IF ~d.valid THEN Thrown(invalidValue(l("Date"), val, key, parent), G.tm)
             ELSE Ok(DateV(d.ms), G.tm)

\* lines 173-177: the declared keys from the i-th on, result the properties
\* written so far
transformDeclared(props, i, val, G, ref, result) ==
    IF i > Len(props.keys) THEN Ok(result, G.tm)
    ELSE LET key  == props.keys[i]
             prop == props.at[key]
             res  == transform(PropValue(val, key), prop.typ, G, key, ref)
         IN  IF res.st # "ok" THEN res
             ELSE transformDeclared(props, i + 1, val, At(G, res.tm), ref,
                                    PutEntry(result, prop.key, res.val))

\* lines 178-182: the keys of val from the i-th on
transformUndeclared(props, additional, i, val, G, ref, result) ==
    IF i > Len(val.keys) THEN Ok(result, G.tm)
    ELSE LET key == val.keys[i]
         IN  IF IsDeclared(props, key)
             THEN transformUndeclared(props, additional, i + 1, val, G, ref, result)
             ELSE LET res == transform(val.at[key], additional, G, key, ref)
                  IN  IF res.st # "ok" THEN res
                      ELSE transformUndeclared(props, additional, i + 1, val,
                                               At(G, res.tm), ref,
                                               PutEntry(result, key, res.val))

\* lines 168-184.  A Date or another non-plain object has no own properties.
transformObject(props, additional, val, G, key, parent, ref) ==
    IF val = Null \/ TypeOf(val) # "object" \/ IsArray(val)
    THEN Thrown(invalidValue(l(IF ref # "" THEN ref ELSE "object"), val, key, parent), G.tm)
    ELSE LET ov       == Own(val)
             declared == transformDeclared(props, 1, ov, G, ref, Obj(<<>>))
         IN  IF declared.st # "ok" THEN declared
             ELSE transformUndeclared(props, additional, 1, ov, At(G, declared.tm), ref,
                                      declared.val)

\* line 201: getProps(typ) for the shape reached through reference ref, then
\* transformObject.  A shape written inline (none in typeMap) is not a
\* registry entry: its map is the one getProps builds from its props.
transformShape(typ, val, G, key, parent, ref) ==
    IF ref \notin DOMAIN G.tm
    THEN transformObject(IF G.dir = "jsonToJS" THEN jsonToJSMap(typ.props)
                         ELSE jsToJSONMap(typ.props),
                         typ.additional, val, G, key, parent, ref)
    ELSE IF G.stepped /\ G.view[ref] = Pending THEN Need(ref, G.tm)
    ELSE LET tm2   == IF G.stepped THEN G.tm ELSE getPropsRegistry(G.tm, ref, G.dir)
             props == IF G.stepped THEN G.view[ref] ELSE MemoReturn(tm2, ref, G.dir)
         IN  IF props = Undef THEN Thrown(TypeError, tm2)
             ELSE transformObject(props, typ.additional, val, At(G, tm2), key, parent, ref)

\* lines 186-206
transform(val, typ, G, key, parent) ==
    IF typ = Str("any") THEN Ok(val, G.tm)
    ELSE IF typ = Null
         THEN IF val = Null THEN Ok(val, G.tm)
              ELSE Thrown(invalidValue(typ, val, key, parent), G.tm)
    ELSE IF typ = Bool(FALSE) THEN Thrown(invalidValue(typ, val, key, parent), G.tm)
    ELSE LET rs  == Resolve(typ, "", G.tm)
             rt  == rs.typ
             ref == rs.ref
         IN  IF IsArray(rt) THEN transformEnum(rt, val, G, key, parent)
             ELSE IF TypeOf(rt) = "object"
                  THEN CASE rt.t = "union" -> transformUnion(rt.unionMembers, val, G, key, parent)
                         [] rt.t = "a"     -> transformArray(rt.arrayItems, val, G, key, parent)
                         [] rt.t = "shape" -> transformShape(rt, val, G, key, parent, ref)
                         [] OTHER          -> Thrown(invalidValue(rt, val, key, parent), G.tm)
             ELSE IF DateGuard(rt, val) THEN transformDate(val, G, key, parent)
             ELSE transformPrimitive(rt, val, G, key, parent)

NoView == [n \in ShapeNames |-> Pending]

\* lines 209-211, run in one piece on registry tm
cast(tm, val, typ) ==
    transform(val, typ, [tm |-> tm, dir |-> "jsonToJS", stepped |-> FALSE, view |-> NoView],
              "", "")

\* lines 213-215, run in one piece on registry tm
uncast(tm, val, typ) ==
    transform(val, typ, [tm |-> tm, dir |-> "jsToJSON", stepped |-> FALSE, view |-> NoView],
              "", "")

\* Convert.toCoinInfo (lines 80-82) on the JSON document doc, the value
\* JSON.parse returns for the text
toCoinInfo(tm, doc) == cast(tm, doc, r("CoinInfo"))

\* Convert.coinInfoToJson (lines 84-86): the text it returns, read back as
\* a JSON value
coinInfoToJson(tm, value) ==
    LET res == uncast(tm, value, r("CoinInfo"))
    IN  IF res.st = "ok" THEN Ok(JSONstringify(res.val), res.tm) ELSE res

(***************************************************************************)
(* Inputs.  A JSON document is the valid base document below with a set of *)
(* changes applied; a change omits a declared key, sets it to a value, or  *)
(* adds an undeclared key, at one object of the document.  The base        *)
(* document has NTags tags, one team member and two extended links, the    *)
(* first with a stats object and the second without.                       *)
(***************************************************************************)
NTags == 3

PropsOf(S) == InitTypeMap[S].props

Insts(S) ==
    CASE S = "Tag"           -> 1..NTags
      [] S = "LinksExtended" -> 1..2
      [] OTHER               -> {1}

ExtraKeys == <<"extra", "">>

Hit(M, S, i, f, kind) ==
    {m \in M : m.shape = S /\ m.inst = i /\ m.field = f /\ m.kind = kind}

BaseHas(S, i, f) == ~(S = "LinksExtended" /\ f = "stats" /\ i = 2)

RECURSIVE ObjOf(_, _, _)
BaseVal(S, i, f, typ, M) ==
    CASE typ = Str("")    -> Str("x")
      [] typ = Num(0)     -> Num(1)
      [] typ = Bool(TRUE) -> Bool(FALSE)
      [] typ = DateCtor   -> Str("1970-01-20T16:13:20.000Z")
      [] typ = a(Str("")) -> Arr(<<Str("https://x")>>)
      [] typ = u(<<Undef, Num(0)>>) -> Num(3)
      [] f = "tags"       -> Arr([j \in 1..NTags |-> ObjOf("Tag", j, M)])
      [] f = "team"       -> Arr(<<ObjOf("Team", 1, M)>>)
      [] f = "links"      -> ObjOf("Links", 1, M)
      [] f = "links_extended" -> Arr([j \in 1..2 |-> ObjOf("LinksExtended", j, M)])
      [] f = "whitepaper" -> ObjOf("Whitepaper", 1, M)
      [] f = "stats"      -> ObjOf("Stats", 1, M)

ObjOf(S, i, M) ==
    LET props == PropsOf(S)
        RECURSIVE build(_)
        build(k) ==
            IF k > Len(props) THEN <<>>
            ELSE LET f   == props[k].json
                     set == Hit(M, S, i, f, "set")
                     has == Hit(M, S, i, f, "omit") = {} /\ (set # {} \/ BaseHas(S, i, f))
                     v   == IF set # {} THEN (CHOOSE m \in set : TRUE).val
                            ELSE BaseVal(S, i, f, props[k].typ, M)
                 IN  (IF has THEN <<[k |-> f, v |-> v]>> ELSE <<>>) \o build(k + 1)
        RECURSIVE extras(_)
        extras(k) ==
            IF k > Len(ExtraKeys) THEN <<>>
            ELSE LET x == Hit(M, S, i, ExtraKeys[k], "extra")
                 IN  (IF x # {} THEN <<[k |-> ExtraKeys[k], v |-> (CHOOSE m \in x : TRUE).val]>>
                      ELSE <<>>) \o extras(k + 1)
    IN  Obj(build(1) \o extras(1))

\* the JSON document with the changes M
Doc(M) == ObjOf("CoinInfo", 1, M)

Sites ==
    UNION {{[shape |-> S, inst |-> i, field |-> PropsOf(S)[k].json, typ |-> PropsOf(S)[k].typ] :
               i \in Insts(S), k \in 1..Len(PropsOf(S))} : S \in ShapeNames}

Objects == UNION {{[shape |-> S, inst |-> i] : i \in Insts(S)} : S \in ShapeNames}

SetVals ==
    { Num(7), Num(1700000000), Str("7"), Str("not-a-date"),
      Str("1970-01-20T16:13:20Z"), Str("1970-01-02"), Null, Bool(TRUE),
      Arr(<<>>), Arr(<<Str("1970-01-02")>>), Arr(<<Str("a"), Str("b"), Num(7)>>),
      Obj(<<>>) }

Change(S, i, f, kind, v) ==
    [shape |-> S, inst |-> i, field |-> f, kind |-> kind, val |-> v]

Omits == {Change(x.shape, x.inst, x.field, "omit", Undef) : x \in {y \in Sites : BaseHas(y.shape, y.inst, y.field)}}

Sets == {Change(x.shape, x.inst, x.field, "set", v) : x \in Sites, v \in SetVals}

Extras ==
    {Change(x.shape, x.inst, ExtraKeys[k], "extra", Num(1)) :
        x \in Objects, k \in 1..Len(ExtraKeys)}

\* a value no shape of the field accepts: a number, or for the fields that
\* take a number the string "7"
BadVal(typ) ==
    IF typ = Num(0) \/ typ = u(<<Undef, Num(0)>>) THEN Str("7") ELSE Num(7)

BadSets == {Change(x.shape, x.inst, x.field, "set", BadVal(x.typ)) : x \in Sites}

SameSite(m1, m2) ==
    m1.shape = m2.shape /\ m1.inst = m2.inst /\ m1.field = m2.field

\* the changes that documents with two changes combine: those at the fields
\* below, and an undeclared key "extra" at any object
PairFields(S) ==
    CASE S = "CoinInfo"      -> {"id", "rank", "tags", "started_at", "links",
                                 "links_extended", "last_data_at"}
      [] S = "Tag"           -> {"id", "ico_counter"}
      [] S = "Team"          -> {}
      [] S = "Links"         -> {"explorer", "youtube"}
      [] S = "LinksExtended" -> {"url", "stats"}
      [] S = "Stats"         -> {"subscribers", "followers"}
      [] S = "Whitepaper"    -> {"link"}

PairChanges ==
    {m \in Omits \cup BadSets : m.field \in PairFields(m.shape)}
        \cup {m \in Extras : m.field = "extra"}

Inputs ==
    {{}} \cup {{m} : m \in Omits \cup Sets \cup Extras}
         \cup UNION {{{m1, m2} : m2 \in {m \in PairChanges : ~SameSite(m1, m)}} :
                        m1 \in PairChanges}

None == [st |-> "none"]

\* what the caller gets: the returned value or the Error
Outcome(res) ==
    IF res.st = "ok" THEN [st |-> "ok", val |-> res.val]
    ELSE [st |-> "err", err |-> res.err]

(***************************************************************************)
(* Spec: one document goes through Convert.toCoinInfo and, when that       *)
(* returns, its result through Convert.coinInfoToJson, on the registry as  *)
(* built.                                                                  *)
(***************************************************************************)
Init ==
    /\ typeMap = InitTypeMap
    /\ input \in Inputs
    /\ phase = "start"
    /\ typed = None
    /\ json = None
    /\ tin = None
    /\ tout = None
    /\ call = None

ToCoinInfo ==
    /\ phase = "start"
    /\ LET res == toCoinInfo(typeMap, Doc(input))
       IN  typed' = Outcome(res) /\ typeMap' = res.tm
    /\ phase' = "parsed"
    /\ UNCHANGED <<input, json, tin, tout, call>>

CoinInfoToJson ==
    /\ phase = "parsed"
    /\ typed.st = "ok"
    /\ LET res == coinInfoToJson(typeMap, typed.val)
       IN  json' = Outcome(res) /\ typeMap' = res.tm
    /\ phase' = "serialized"
    /\ UNCHANGED <<input, typed, tin, tout, call>>

Next == ToCoinInfo \/ CoinInfoToJson

Spec == Init /\ [][Next]_vars

(***************************************************************************)
(* Properties of Spec                                                      *)
(***************************************************************************)
Parsed == phase # "start"

DateFields == {x.field : x \in {y \in Sites : y.typ = DateCtor}}

\* a date/time string that denotes a valid instant
IsInstantString(v) == v.t = "string" /\ DateParse(v.s).valid

\* The value x of the document and the value y of the output agree as values
\* of type typ: timestamps as instants, objects field by declared field
\* (absent in one means absent in the other), arrays element by element.
RECURSIVE SameAs(_, _, _)
SameAs(typ, x, y) ==
    CASE typ = DateCtor ->
            IF IsInstantString(x) /\ IsInstantString(y)
            THEN DateParse(x.s).ms = DateParse(y.s).ms
            ELSE x = y
      [] typ.t = "a" ->
            /\ IsArray(x) /\ IsArray(y) /\ Len(x.items) = Len(y.items)
            /\ \A i \in 1..Len(x.items) : SameAs(typ.arrayItems, x.items[i], y.items[i])
      [] typ.t = "union" -> SameAs(typ.unionMembers[2], x, y)
      [] typ.t = "ref" ->
            /\ x.t = "object" /\ y.t = "object"
            /\ \A k \in 1..Len(PropsOf(typ.ref)) :
                  LET p == PropsOf(typ.ref)[k]
                  IN  /\ HasOwn(x, p.json) <=> HasOwn(y, p.json)
                      /\ HasOwn(x, p.json) =>
                            SameAs(p.typ, GetOwn(x, p.json), GetOwn(y, p.json))
      [] OTHER -> x = y

\* C1 (as claimed): whenever Convert.toCoinInfo accepts a document,
\* Convert.coinInfoToJson of the result succeeds and its output has, for every
\* declared field of CoinInfo and of the nested shapes, the value the document
\* has (timestamps as instants, absent optional fields absent).
C1_RoundTrip ==
    /\ (Parsed /\ typed.st = "ok") => phase = "parsed" \/ json.st = "ok"
    /\ phase = "serialized" =>
          json.st = "ok" /\ SameAs(r("CoinInfo"), Doc(input), json.val)

\* the change of a document with exactly one change
TheChange == CHOOSE m \in input : TRUE

OneChange == Cardinality(input) = 1

\* C2 (as claimed): a document whose only defect is a timestamp field that
\* is not a date/time string denoting a valid instant (null, a boolean, an
\* unparseable string, an omitted key, ...) is rejected by Convert.toCoinInfo.
C2_TimestampValidity ==
    (Parsed /\ OneChange /\ TheChange.field \in DateFields
        /\ TheChange.shape = "CoinInfo" /\ TheChange.kind \in {"set", "omit"}
        /\ ~(TheChange.kind = "set" /\ IsInstantString(TheChange.val)))
    => typed.st = "err"

\* C3: in a document whose other fields are valid, a timestamp field holding
\* a number makes Convert.toCoinInfo fail, and one holding a string that
\* denotes a valid instant makes it return a value whose field is that instant.
C3_DateGuard ==
    (Parsed /\ OneChange /\ TheChange.field \in DateFields
        /\ TheChange.shape = "CoinInfo" /\ TheChange.kind = "set")
    => /\ TheChange.val.t = "number" => typed.st = "err"
       /\ IsInstantString(TheChange.val) =>
             /\ typed.st = "ok"
             /\ GetOwn(typed.val, TheChange.field) = DateV(DateParse(TheChange.val.s).ms)

C3_Witness ==
    /\ phase = "parsed" /\ typed.st = "err"
    /\ input = {Change("CoinInfo", 1, "started_at", "set", Num(1700000000))}
    /\ typed.err.key = "started_at"

\* the diagnostic names key k: the message shows a key only when it is truthy
NamesKey(err, k) == k # "" /\ err.key = k

\* C4 (as claimed): an undeclared key in any object of an otherwise valid
\* document makes Convert.toCoinInfo fail with a diagnostic naming that key.
C4_StrictRejection_Original ==
    (Parsed /\ OneChange /\ TheChange.kind = "extra")
    => typed.st = "err" /\ NamesKey(typed.err, TheChange.field)

\* C4 (amended): every named shape is declared with additional = false, and
\* an undeclared key in any object of an otherwise valid document makes
\* Convert.toCoinInfo fail; the diagnostic names the key on its shape when the
\* key is not the empty string and the object is not a Stats object, names key
\* "stats" on LinksExtended when the object is a Stats object, and shows no
\* key when the key is the empty string.
C4_StrictRejection ==
    /\ \A n \in ShapeNames : typeMap[n].additional = Bool(FALSE)
    /\ (Parsed /\ OneChange /\ TheChange.kind = "extra")
       => /\ typed.st = "err"
          /\ IF TheChange.shape = "Stats"
             THEN typed.err.key = "stats" /\ typed.err.parent = "LinksExtended"
             ELSE typed.err.key = TheChange.field /\ typed.err.parent = TheChange.shape

C4_Witness ==
    /\ phase = "parsed" /\ typed.st = "err"
    /\ input = {Change("Tag", 2, "extra", "extra", Num(1))}
    /\ NamesKey(typed.err, "extra") /\ typed.err.parent = "Tag"

\* the fields whose shape accepts the absent marker
Optional(S, f) == S = "Stats" \/ (S = "LinksExtended" /\ f = "stats")

\* C6: omitting a declared key whose shape does not accept the absent marker
\* (every field but LinksExtended.stats and the fields of Stats) from an
\* otherwise valid document makes Convert.toCoinInfo fail with a diagnostic
\* naming that key on its shape; omitting one of the others is accepted.
C6_MissingRequired ==
    (Parsed /\ OneChange /\ TheChange.kind = "omit")
    => IF Optional(TheChange.shape, TheChange.field)
       THEN typed.st = "ok"
       ELSE /\ typed.st = "err"
            /\ NamesKey(typed.err, TheChange.field)
            /\ typed.err.parent = TheChange.shape
            /\ typed.err.got = Undef

C6_Witness ==
    /\ phase = "parsed" /\ typed.st = "err"
    /\ input = {Change("CoinInfo", 1, "rank", "omit", Undef)}
    /\ NamesKey(typed.err, "rank") /\ typed.err.expected = <<"number">>

\* Traversal order of the changes of a document: declared fields in
\* declaration order, then undeclared keys; array elements in index order;
\* an object before what it contains.
IndexOf(S, f) ==
    IF \E k \in 1..Len(PropsOf(S)) : PropsOf(S)[k].json = f
    THEN CHOOSE k \in 1..Len(PropsOf(S)) : PropsOf(S)[k].json = f
    ELSE Len(PropsOf(S)) + 1

Host(S) ==
    CASE S = "Tag"           -> "tags"
      [] S = "Team"          -> "team"
      [] S = "Links"         -> "links"
      [] S = "LinksExtended" -> "links_extended"
      [] S = "Stats"         -> "links_extended"
      [] S = "Whitepaper"    -> "whitepaper"

Pos(m) ==
    CASE m.shape = "CoinInfo" -> <<IndexOf("CoinInfo", m.field), 0, 0, 0>>
      [] m.shape = "Stats"    ->
            <<IndexOf("CoinInfo", "links_extended"), 1,
              IndexOf("LinksExtended", "stats"), IndexOf("Stats", m.field)>>
      [] OTHER ->
            <<IndexOf("CoinInfo", Host(m.shape)), m.inst, IndexOf(m.shape, m.field), 0>>

Before(p, q) ==
    \E k \in 1..4 : p[k] < q[k] /\ \A j \in 1..(k - 1) : p[j] = q[j]

\* Convert.toCoinInfo of the document whose only change is m, on the registry
\* as built
Alone(m) == toCoinInfo(InitTypeMap, Doc({m}))

\* val is an array with an element that typ's item shape rejects
InvalidElement(val, typ) ==
    /\ IsArray(val)
    /\ \E i \in 1..Len(val.items) :
          cast(InitTypeMap, val.items[i], typ.arrayItems).st = "err"

\* obj has a declared array field (typ a(...)) with an invalid element
ArrayFieldInvalid(obj, S) ==
    \E k \in 1..Len(PropsOf(S)) :
        /\ PropsOf(S)[k].typ.t = "a"
        /\ HasOwn(obj, PropsOf(S)[k].json)
        /\ InvalidElement(GetOwn(obj, PropsOf(S)[k].json), PropsOf(S)[k].typ)

\* C7: when an element of a declared array field (of the root or of its
\* links object) is invalid, Convert.toCoinInfo fails and returns nothing;
\* when a document has two mismatches, the Error is the one the earlier
\* mismatch in traversal order gives alone, and nothing after it is visited:
\* the registry is left as the earlier mismatch alone leaves it.  (The value
\* shown for a mismatch in a stats object is the whole stats object, so it
\* alone may differ when both mismatches are in the same stats object.)
C7_FailFast ==
    /\ (Parsed /\ ( \/ ArrayFieldInvalid(Doc(input), "CoinInfo")
                    \/ /\ HasOwn(Doc(input), "links")
                       /\ ArrayFieldInvalid(GetOwn(Doc(input), "links"), "Links") ))
       => typed.st = "err"
    /\ (phase = "parsed" /\ Cardinality(input) = 2)
       => LET m1 == CHOOSE m \in input : \A n \in input \ {m} : Before(Pos(m), Pos(n))
              m2 == CHOOSE m \in input : m # m1
              e1 == Alone(m1)
          IN  (e1.st = "err" /\ Alone(m2).st = "err")
              => /\ typed.st = "err"
                 /\ typed.err.key = e1.err.key
                 /\ typed.err.parent = e1.err.parent
                 /\ typed.err.expected = e1.err.expected
                 /\ (m1.shape # "Stats" \/ m2.shape # "Stats") => typed.err.got = e1.err.got
                 /\ typeMap = e1.tm

C7_Witness ==
    /\ phase = "parsed" /\ typed.st = "err"
    /\ input = {Change("Tag", 3, "ico_counter", "set", Str("7")),
                Change("CoinInfo", 1, "last_data_at", "omit", Undef)}
    /\ NamesKey(typed.err, "ico_counter") /\ typed.err.parent = "Tag"
    /\ typeMap["Links"].jsonToJS = Undef

(***************************************************************************)
(* SpecTransform: one call of transform(val, typ, getProps, key, parent)   *)
(* on the registry as built, for values and type descriptors beyond the    *)
(* ones Convert reaches: the shapes of the registry taken alone, unions,   *)
(* and references to names the registry does not hold.                     *)
(***************************************************************************)
StatsFields == {PropsOf("Stats")[k].json : k \in 1..Len(PropsOf("Stats"))}

One(k, v) == Obj(<<[k |-> k, v |-> v]>>)

TVals ==
    { Undef, Null, Num(7), Str("7"), Str("1970-01-02"), Bool(TRUE), Arr(<<>>), Obj(<<>>),
      Obj(<<[k |-> "link", v |-> Str("l")], [k |-> "thumbnail", v |-> Str("t")]>>),
      Obj(<<[k |-> "stars", v |-> Num(7)], [k |-> "followers", v |-> Str("7")]>>) }
        \cup {One(f, v) : f \in StatsFields, v \in {Num(7), Num(0), Str("7"), Null, Bool(TRUE), Undef}}

TTypes ==
    { r("Stats"), r("Whitepaper"), r("Nope"), a(r("Nope")),
      o(<<P("owner", r("Nope"))>>, Bool(FALSE)),
      u(<<Undef, Num(0)>>), u(<<Undef, r("Stats")>>),
      u(<<DateCtor, Str("")>>), u(<<Str(""), DateCtor>>),
      u(<<Str(""), Num(0), Bool(TRUE)>>) }

TInputs ==
    {[val |-> v, typ |-> t, dir |-> d, key |-> k.key, parent |-> k.parent] :
        v \in TVals, t \in TTypes, d \in {"jsonToJS", "jsToJSON"},
        k \in {[key |-> "", parent |-> ""], [key |-> "stats", parent |-> "LinksExtended"]}}

InitTransform ==
    /\ typeMap = InitTypeMap
    /\ tin \in TInputs
    /\ tout = None
    /\ input = {}
    /\ phase = "transform"
    /\ typed = None
    /\ json = None
    /\ call = None

Context(tm, dir) == [tm |-> tm, dir |-> dir, stepped |-> FALSE, view |-> NoView]

Transform ==
    /\ tout = None
    /\ LET res == transform(tin.val, tin.typ, Context(typeMap, tin.dir), tin.key, tin.parent)
       IN  tout' = Outcome(res) /\ typeMap' = res.tm
    /\ UNCHANGED <<input, phase, typed, json, tin, call>>

NextTransform == Transform

SpecTransform == InitTransform /\ [][NextTransform]_vars

\* C5: each field of Stats is declared as the union of undefined and number;
\* transforming against Stats an object with one such field set to a number
\* (or to undefined) succeeds with that field equal to it, with no field it
\* succeeds with every field absent, and with the field set to anything else
\* it fails with a diagnostic for that key on Stats that expects "an optional
\* number".  Any union returns what its earliest member that does not fail
\* returns, and fails, naming the members, only when every member fails.
C5_OptionalUnion ==
    /\ \A k \in 1..Len(PropsOf("Stats")) : PropsOf("Stats")[k].typ = u(<<Undef, Num(0)>>)
    /\ (tout # None /\ tin.typ = r("Stats") /\ tin.val = Obj(<<>>))
       => /\ tout.st = "ok"
          /\ \A f \in StatsFields : PropValue(tout.val, f) = Undef
          /\ JSONstringify(tout.val) = Obj(<<>>)
    /\ \A f \in StatsFields :
          (tout # None /\ tin.typ = r("Stats") /\ tin.val.t = "object"
              /\ tin.val.keys = <<f>>)
          => LET x == tin.val.at[f]
             IN  IF x.t \in {"number", "undefined"}
                 THEN /\ tout.st = "ok"
                      /\ GetOwn(tout.val, f) = x
                      /\ \A g \in StatsFields \ {f} : GetOwn(tout.val, g) = Undef
                 ELSE /\ tout.st = "err"
                      /\ tout.err.expected = <<"an optional", "number">>
                      /\ tout.err.key = f /\ tout.err.parent = "Stats"
                      /\ tout.err.got = x
    /\ (tout # None /\ tin.typ.t = "union")
       => LET ms   == tin.typ.unionMembers
              outs == [i \in 1..Len(ms) |->
                          Outcome(transform(tin.val, ms[i], Context(InitTypeMap, tin.dir), "", ""))]
              oks  == {i \in 1..Len(ms) : outs[i].st = "ok"}
          IN  IF oks # {}
              THEN tout = outs[CHOOSE i \in oks : \A j \in oks : i <= j]
              ELSE /\ tout.st = "err"
                   /\ tout.err.expected = prettyTypeName(Arr(ms))
                   /\ tout.err.key = tin.key /\ tout.err.parent = tin.parent

C5_Witness ==
    /\ tout # None /\ tout.st = "err"
    /\ tin.typ = r("Stats") /\ tin.val = One("stars", Str("7"))
    /\ tout.err.expected = <<"an optional", "number">> /\ tout.err.key = "stars"

\* typ is, or has a field that is, a reference to a name typeMap does not hold
Unresolved(typ) ==
    \/ typ.t = "ref" /\ typ.ref \notin ShapeNames
    \/ typ.t = "shape" /\ \E k \in 1..Len(typ.props) :
          typ.props[k].typ.t = "ref" /\ typ.props[k].typ.ref \notin ShapeNames

\* C10 (as claimed): transform of any value, the absent marker included,
\* against a reference to a name the registry does not hold fails, in both
\* naming directions, also when the reference is the shape of an omitted field.
C10_UnresolvedReference ==
    (tout # None /\ Unresolved(tin.typ) /\ (tin.typ.t = "shape" => tin.val = Obj(<<>>)))
    => tout.st = "err"

(***************************************************************************)
(* SpecConc: callers run Convert.toCoinInfo and Convert.coinInfoToJson on  *)
(* the one registry, any number of times, their steps interleaved: a call  *)
(* stops before each getProps it makes, whose check (lines 111, 120) and   *)
(* fill-and-return (lines 112-116, 121-125) are separate steps.            *)
(***************************************************************************)
Callers == {"c1", "c2"}

\* The documents of the calls: the base document without tags and team
\* members and with one extended link that has stats (it reaches CoinInfo,
\* Links, LinksExtended, Whitepaper and, inside a union, Stats), and the
\* same without extended links and without its "rank" (its parse throws).
NoLists ==
    { Change("CoinInfo", 1, "tags", "set", Arr(<<>>)),
      Change("CoinInfo", 1, "team", "set", Arr(<<>>)) }

OneLink ==
    Arr(<<Obj(<<[k |-> "url", v |-> Str("https://x")], [k |-> "type", v |-> Str("x")],
                [k |-> "stats", v |-> One("stars", Num(7))]>>)>>)

ConcDocs ==
    { NoLists \cup {Change("CoinInfo", 1, "links_extended", "set", OneLink)},
      NoLists \cup {Change("CoinInfo", 1, "links_extended", "set", Arr(<<>>)),
                    Change("CoinInfo", 1, "rank", "omit", Undef)} }

\* the calls a caller may make: toCoinInfo of a document, coinInfoToJson of
\* the typed value of the first document
ConcInputs ==
    {[dir |-> "jsonToJS", doc |-> M] : M \in ConcDocs}
        \cup {[dir |-> "jsToJSON",
               doc |-> NoLists \cup {Change("CoinInfo", 1, "links_extended", "set", OneLink)}]}

\* the argument of each call, and its outcome when the call runs alone, in
\* one piece, on a registry as built
ArgTable ==
    [inp \in ConcInputs |->
        IF inp.dir = "jsonToJS" THEN Doc(inp.doc)
        ELSE toCoinInfo(InitTypeMap, Doc(inp.doc)).val]

ArgOf(inp) == ArgTable[inp]

\* what the entry point returns or throws, given the outcome of its transform
Returned(inp, res) ==
    IF inp.dir = "jsToJSON" /\ res.st = "ok"
    THEN [st |-> "ok", val |-> JSONstringify(res.val)]
    ELSE Outcome(res)

\* pc: where the call stands; inp: its input; view: what getProps has
\* returned to it so far; next: the getProps it has run on to, or its end;
\* want, miss: the shape of the getProps in progress and what its check
\* found; raced: whether one of its fills overwrote a map that another call
\* had set since the check; out: its outcome.
Idle == [pc |-> "idle", inp |-> None, view |-> NoView, next |-> None, want |-> "",
         miss |-> FALSE, raced |-> FALSE, out |-> None]

InitConc ==
    /\ typeMap = InitTypeMap
    /\ call = [c \in Callers |-> Idle]
    /\ input = {}
    /\ phase = "calls"
    /\ typed = None
    /\ json = None
    /\ tin = None
    /\ tout = None

\* the call's transform on registry tm, as far as the getProps results in
\* view let it go: the shape whose getProps it has reached, or what the
\* entry point returns or throws
Progress(tm, inp, view) ==
    LET res == transform(ArgOf(inp), r("CoinInfo"),
                         [tm |-> tm, dir |-> inp.dir, stepped |-> TRUE, view |-> view],
                         "", "")
    IN  IF res.st = "need" THEN [st |-> "need", name |-> res.name]
        ELSE [st |-> "end", out |-> Returned(inp, res)]

\* the entry point is called and runs on to its first getProps
Begin(c) ==
    /\ call[c].pc \in {"idle", "done"}
    /\ \E inp \in ConcInputs :
          call' = [call EXCEPT ![c] = [Idle EXCEPT !.pc = "run", !.inp = inp,
                                                   !.next = Progress(typeMap, inp, NoView)]]
    /\ UNCHANGED <<typeMap, input, phase, typed, json, tin, tout>>

\* lines 111, 120: the check of getProps
Check(c) ==
    /\ call[c].pc = "run"
    /\ call[c].next.st = "need"
    /\ call' = [call EXCEPT ![c].pc = "fill", ![c].want = call[c].next.name,
                            ![c].miss = MemoMissing(typeMap, call[c].next.name,
                                                    call[c].inp.dir)]
    /\ UNCHANGED <<typeMap, input, phase, typed, json, tin, tout>>

\* lines 112-116, 121-125: the fill and the return of getProps, after which
\* the call runs on to its next getProps or to its end
Fill(c) ==
    /\ call[c].pc = "fill"
    /\ LET n    == call[c].want
           dir  == call[c].inp.dir
           tm2  == IF call[c].miss THEN MemoFill(typeMap, n, dir) ELSE typeMap
           view == [call[c].view EXCEPT ![n] = MemoReturn(tm2, n, dir)]
       IN  /\ typeMap' = tm2
           /\ call' = [call EXCEPT ![c].pc = "run", ![c].want = "", ![c].miss = FALSE,
                                   ![c].raced = @ \/ (call[c].miss /\ ~MemoMissing(typeMap, n, dir)),
                                   ![c].view = view,
                                   ![c].next = Progress(tm2, call[c].inp, view)]
    /\ UNCHANGED <<input, phase, typed, json, tin, tout>>

\* the entry point returns or throws
Return(c) ==
    /\ call[c].pc = "run"
    /\ call[c].next.st = "end"
    /\ call' = [call EXCEPT ![c].pc = "done", ![c].next = None, ![c].out = call[c].next.out]
    /\ UNCHANGED <<typeMap, input, phase, typed, json, tin, tout>>

NextConc == \E c \in Callers : Begin(c) \/ Check(c) \/ Fill(c) \/ Return(c)

SpecConc == InitConc /\ [][NextConc]_vars

\* the outcome of the same call run alone, in one piece, on a registry as built
AloneTable ==
    [inp \in ConcInputs |->
        IF inp.dir = "jsonToJS" THEN Outcome(toCoinInfo(InitTypeMap, ArgOf(inp)))
        ELSE Outcome(coinInfoToJson(InitTypeMap, ArgOf(inp)))]

OutcomeAlone(inp) == AloneTable[inp]

\* C8 (as claimed): every registry entry is at all times exactly as built.
C8_RegistryImmutable_Original == typeMap = InitTypeMap

\* C8 (amended): the registry holds the same names at all times, and every
\* entry keeps its props and additional exactly as built; the only thing a
\* call writes is an entry's memoised jsonToJS or jsToJSON map, which is
\* either not set yet or the map built from the entry's props.
C8_RegistryImmutable ==
    /\ DOMAIN typeMap = ShapeNames
    /\ \A n \in ShapeNames :
          /\ typeMap[n].props = InitTypeMap[n].props
          /\ typeMap[n].additional = InitTypeMap[n].additional
          /\ typeMap[n].jsonToJS \in {Undef, jsonToJSMap(InitTypeMap[n].props)}
          /\ typeMap[n].jsToJSON \in {Undef, jsToJSONMap(InitTypeMap[n].props)}

C8_Witness ==
    /\ \E c \in Callers : call[c].pc = "done" /\ call[c].out.st = "ok"
    /\ typeMap["Stats"].jsonToJS = jsonToJSMap(StatsProps)
    /\ typeMap["CoinInfo"].jsToJSON = jsToJSONMap(CoinInfoProps)

\* C9: whatever the interleaving of the callers' steps and whatever calls
\* came before, a finished call has the outcome the same call has when run
\* alone on a registry as built.
C9_CallIndependence ==
    \A c \in Callers :
        call[c].pc = "done" => call[c].out = OutcomeAlone(call[c].inp)

\* a call has finished whose getProps filled a map that another call had
\* filled between its check and its fill
C9_Witness ==
    \E c \in Callers :
        /\ call[c].pc = "done" /\ call[c].raced
        /\ call[c].out.st = "ok" /\ call[c].out = OutcomeAlone(call[c].inp)

====
